---- MODULE Spec2Model ----
(***************************************************************************)
(* Model of src/src/daily_rotate_file.rs: the DailyRotateFile transport.   *)
(* The sink owns two mutexes, `file` (the buffered handle of the active    *)
(* file) and `last_rotation` (the timestamp of the last rotation).  Each   *)
(* thread's log() call is cut at the points where it acquires or releases  *)
(* one of the two locks or touches the filesystem; everything between two  *)
(* such points is one atomic action.                                       *)
(***************************************************************************)
EXTENDS Integers, Sequences, FiniteSets, TLC

\* ---------------------------------------------------------------- bounds
NumThreads == 2      \* writer threads sharing the sink
MaxEntries == 3      \* log() calls issued in total
MaxTime    == 2      \* the wall clock runs over 0..MaxTime
BucketLen  == 2      \* clock ticks per rotation bucket of the date pattern
LocalOffset == 1     \* offset of the local timezone from UTC, in ticks
MaxMsgLen  == 2      \* message lengths are 1..MaxMsgLen bytes
MaxSizeCfg == 5      \* the max_size value of the configurations that set one
MaxFilesCfg == 2     \* the max_files value of the configurations that set one
BufCap     == 2      \* capacity of the BufWriter (8192 in std, scaled down)
MaxPre     == 1      \* files of the same base left behind by an earlier sink

Threads == 1..NumThreads
None == [some |-> FALSE, v |-> 0]
Some(x) == [some |-> TRUE, v |-> x]
NoPath == [dir |-> "", date |-> 0 - 1, n |-> 0, name |-> ""]

VARIABLES
  sink,           \* outcome of DailyRotateFileBuilder::build: "unbuilt", "built",
                  \* "error" (Err returned) or "panicked"
  options,        \* DailyRotateFileOptions (immutable after construction)
  clock,          \* the wall clock (Utc::now())
  fs,             \* the filesystem: path -> bytes on disk (a sequence of chunks)
  created,        \* the paths in the order the filesystem created them
  file,           \* contents of Mutex `file`: [path, buf] of the BufWriter<File>
  fileOwner,      \* thread holding Mutex `file` (0: free)
  last_rotation,  \* contents of Mutex `last_rotation`
  lrOwner,        \* thread holding Mutex `last_rotation` (0: free)
  th,             \* per thread: position in log(), its locals, the number i of
                  \* its current entry and the instant ret its last call returned
  allocs,         \* history: the path returned by each create_unique_file call
  hist            \* history: the entries <<thread, number>> of the log() calls
                  \* that appended, in the order in which they appended

vars == <<sink, options, clock, fs, created, file, fileOwner, last_rotation, lrOwner,
          th, allocs, hist>>

\* ------------------------------------------------------- pure functions

\* chrono's DateTime::format under the configured pattern and timezone mode:
\* the rotation bucket of instant t.
Format(t, utc) == IF utc THEN t \div BucketLen ELSE (t + LocalOffset) \div BucketLen

\* Path::join: an absolute right-hand side replaces the left-hand side.
Join(log_dir, p) ==
  IF p.abs THEN p.parent
  ELSE IF p.parent = "" THEN log_dir ELSE log_dir \o "/" \o p.parent

\* The directory a path string denotes ("" and "." are both the working
\* directory).
NormDir(d) == IF d = "" THEN "." ELSE d

\* The final segment of options.filename (lines 105-108).
OriginalFilename == "test.log"

\* The formatted date as text; the pattern is taken to produce no '.'.
DateStr(bucket) == ToString(bucket)

\* get_filename: "<original_filename>.<date_str>" next to the base path.  Of
\* the derived name, file_stem() is the original filename and extension() is
\* the formatted date.
get_filename(base_path, date, utc) ==
  [abs |-> base_path.abs, parent |-> base_path.parent, date |-> Format(date, utc),
   stem |-> OriginalFilename, ext |-> DateStr(Format(date, utc))]

\* Variant: the open creates the file or opens (and truncates) an existing one.
OpenCreateNew_Create(path, fsys) == "Ok"

\* OpenOptions::new().write(true).create_new(true).open(path)
OpenCreateNew(path, fsys) ==
  IF path \in DOMAIN fsys THEN "AlreadyExists" ELSE "Ok"

\* The name tried by create_unique_file for a given counter: the filename as
\* given for counter 0, log_dir.join("<stem>_<counter>.<ext>") afterwards.
new_filename(log_dir, filename, counter) ==
  IF counter = 0
    THEN [dir |-> NormDir(filename.parent), date |-> filename.date, n |-> 0,
          name |-> filename.stem \o "." \o filename.ext]
    ELSE [dir |-> NormDir(Join(log_dir, filename)), date |-> filename.date,
          n |-> counter,
          name |-> filename.stem \o "_" \o ToString(counter) \o "." \o filename.ext]

RECURSIVE UniqueFrom(_, _, _, _)
UniqueFrom(log_dir, filename, counter, fsys) ==
  IF OpenCreateNew(new_filename(log_dir, filename, counter), fsys) = "Ok"
    THEN new_filename(log_dir, filename, counter)
    ELSE UniqueFrom(log_dir, filename, counter + 1, fsys)

\* create_unique_file: the path whose exclusive create succeeds.  Files are
\* never removed, so the attempts of one call see a growing set of names and
\* the call returns the first name that is free when it is tried.
create_unique_file(log_dir, filename, fsys) == UniqueFrom(log_dir, filename, 0, fsys)

\* create_file: derive the name for `date` and allocate it.
create_file(opts, date, fsys) ==
  create_unique_file(IF opts.dirname.some THEN opts.dirname.v ELSE ".",
                     get_filename(opts.filename, date, opts.utc), fsys)

\* The filesystem after an open(create) of path returned a fresh, empty file.
Opened(path, fsys) == (path :> <<>>) @@ fsys

RECURSIVE Len_bytes(_)
Len_bytes(s) == IF s = <<>> THEN 0 ELSE Head(s).n + Len_bytes(Tail(s))

\* BufWriter::write_all on state w = [disk, buf]: push when the chunk fits,
\* otherwise flush first when it exceeds the spare capacity, and write
\* through when it is at least as large as the whole buffer.
BufWriteAll(w, chunk) ==
  IF chunk.n < BufCap - Len_bytes(w.buf)
    THEN [disk |-> w.disk, buf |-> Append(w.buf, chunk)]
    ELSE LET f == IF chunk.n > BufCap - Len_bytes(w.buf)
                    THEN [disk |-> w.disk \o w.buf, buf |-> <<>>] ELSE w
         IN IF chunk.n >= BufCap
              THEN [disk |-> Append(f.disk, chunk), buf |-> f.buf]
              ELSE [disk |-> f.disk, buf |-> Append(f.buf, chunk)]

\* Variant: the flushed bytes stay in the buffer.
BufFlush_KeepBuf(w) == [disk |-> w.disk \o w.buf, buf |-> w.buf]

\* BufWriter::flush (also what dropping a BufWriter does).
BufFlush(w) == [disk |-> w.disk \o w.buf, buf |-> <<>>]

MsgChunk(t, i, len) == [e |-> <<t, i>>, k |-> "msg", n |-> len]
NlChunk(t, i) == [e |-> <<t, i>>, k |-> "nl", n |-> 1]
OldChunk == [e |-> <<0, 0>>, k |-> "old", n |-> 1]

\* writeln!(file, "{}", message): the message, then the line terminator.
Writeln(w, t, i, len) == BufWriteAll(BufWriteAll(w, MsgChunk(t, i, len)), NlChunk(t, i))

\* Variant: the instant is compared unformatted.
BucketChanged_Raw(now, last, utc) == Format(last, utc) # now
\* Variant: the buckets are never found to differ.
BucketChanged_Never(now, last, utc) == FALSE

\* should_rotate, line 146: the time trigger.
BucketChanged(now, last, utc) == Format(last, utc) # Format(now, utc)

\* Variant: the threshold itself is still accepted.
SizeReached_Strict(size, new_entry_size, max_size) == size + new_entry_size > max_size

\* should_rotate, line 152: the size trigger.
SizeReached(size, new_entry_size, max_size) == size + new_entry_size >= max_size

\* ------------------------------------------------------- configurations
BasePaths == { [abs |-> TRUE, parent |-> "/tmp"], [abs |-> FALSE, parent |-> ""] }

Configs ==
  { [filename |-> [abs |-> TRUE, parent |-> "/tmp"], dirname |-> None,
     max_size |-> None, max_files |-> None, utc |-> FALSE] }
  \cup
  { [filename |-> [abs |-> FALSE, parent |-> ""], dirname |-> Some("logs"),
     max_size |-> Some(MaxSizeCfg), max_files |-> Some(MaxFilesCfg), utc |-> TRUE] }

IdleLocals == [pc |-> "idle", len |-> 0, nowSR |-> 0, rot |-> FALSE,
               decOn |-> NoPath, probed |-> 0, nowRot |-> 0, newFile |-> NoPath]

RECURSIVE PreFiles(_, _, _)
PreFiles(opts, k, fsys) ==
  IF k = 0 THEN fsys
  ELSE LET p == create_file(opts, 0, fsys)
       IN PreFiles(opts, k - 1, (p :> <<OldChunk>>) @@ fsys)

RECURSIVE PreOrder(_, _, _)
PreOrder(opts, k, fsys) ==
  IF k = 0 THEN <<>>
  ELSE LET p == create_file(opts, 0, fsys)
       IN <<p>> \o PreOrder(opts, k - 1, (p :> <<OldChunk>>) @@ fsys)

Empty == [p \in {} |-> <<>>]

\* DailyRotateFile::new at instant 0, in a directory where an earlier sink of
\* the same base filename left `pre` files.
Init ==
  \E o \in Configs, pre \in 0..MaxPre :
    LET fs0 == PreFiles(o, pre, Empty)
        p == create_file(o, 0, fs0)
    IN /\ sink = "built"
       /\ options = o
       /\ clock = 0
       /\ fs = Opened(p, fs0)
       /\ created = Append(PreOrder(o, pre, Empty), p)
       /\ file = [path |-> p, buf |-> <<>>]
       /\ fileOwner = 0
       /\ last_rotation = 0
       /\ lrOwner = 0
       /\ th = [t \in Threads |-> IdleLocals @@ [i |-> 0, ret |-> 0]]
       /\ allocs = <<p>>
       /\ hist = <<>>

\* ------------------------------------------------------------- actions
RECURSIVE IssuedBy(_)
IssuedBy(n) == IF n = 0 THEN 0 ELSE th[n].i + IssuedBy(n - 1)
Issued == IssuedBy(NumThreads)

\* The active BufWriter together with the bytes of its file.
Writer == [disk |-> fs[file.path], buf |-> file.buf]

\* log(), lines 174-176 and should_rotate line 126: the entry is rendered and
\* the clock is read; the thread then waits for the last_rotation lock.
Log(t) ==
  /\ th[t].pc = "idle"
  /\ Issued < MaxEntries
  /\ \E len \in 1..MaxMsgLen :
       th' = [th EXCEPT ![t] = [@ EXCEPT !.pc = "sr_lock", !.i = @ + 1,
                                         !.len = len, !.nowSR = clock]]
  /\ UNCHANGED <<sink, options, clock, fs, created, file, fileOwner, last_rotation,
                 lrOwner, allocs, hist>>

\* should_rotate, lines 136-153 up to the size probe: lock last_rotation and
\* compare the two buckets.  A changed bucket, or no max_size, ends the call and
\* drops the guard; otherwise the guard stays held across get_file_size.
ShouldRotateBucket(t) ==
  /\ th[t].pc = "sr_lock"
  /\ lrOwner = 0
  /\ IF BucketChanged(th[t].nowSR, last_rotation, options.utc)
       THEN /\ th' = [th EXCEPT ![t] = [@ EXCEPT !.pc = "rot_create", !.rot = TRUE,
                                                 !.decOn = file.path]]
            /\ UNCHANGED lrOwner
       ELSE IF ~options.max_size.some
         THEN /\ th' = [th EXCEPT ![t] = [@ EXCEPT !.pc = "write", !.rot = FALSE,
                                                   !.decOn = file.path]]
              /\ UNCHANGED lrOwner
         ELSE /\ th' = [th EXCEPT ![t].pc = "sr_size"]
              /\ lrOwner' = t
  /\ UNCHANGED <<sink, options, clock, fs, created, file, fileOwner, last_rotation,
                 allocs, hist>>

\* get_file_size (lines 114-123) called from should_rotate line 152 with the
\* last_rotation guard held: lock file, flush, read the length, unlock; then
\* the comparison and the release of the last_rotation guard.
ShouldRotateSize(t) ==
  /\ th[t].pc = "sr_size"
  /\ lrOwner = t
  /\ fileOwner = 0
  /\ LET w == BufFlush(Writer)
         size == Len_bytes(w.disk)
         r == SizeReached(size, th[t].len + 1, options.max_size.v)
     IN /\ fs' = [fs EXCEPT ![file.path] = w.disk]
        /\ file' = [file EXCEPT !.buf = w.buf]
        /\ th' = [th EXCEPT ![t] = [@ EXCEPT !.pc = IF r THEN "rot_create" ELSE "write",
                                             !.rot = r, !.decOn = file.path,
                                             !.probed = size]]
  /\ lrOwner' = 0
  /\ UNCHANGED <<sink, options, clock, created, fileOwner, last_rotation, allocs, hist>>

\* rotate, lines 157-158: read the clock and create the new file (no lock held).
RotateCreate(t) ==
  /\ th[t].pc = "rot_create"
  /\ LET p == create_file(options, clock, fs)
     IN /\ fs' = Opened(p, fs)
        /\ created' = Append(created, p)
        /\ allocs' = Append(allocs, p)
        /\ th' = [th EXCEPT ![t] = [@ EXCEPT !.pc = "rot_file", !.nowRot = clock,
                                             !.newFile = p]]
  /\ UNCHANGED <<sink, options, clock, file, fileOwner, last_rotation, lrOwner, hist>>

\* Variant: the replaced BufWriter is discarded without being flushed.
RotateSwap_NoFlush(t) ==
  /\ th[t].pc = "rot_file"
  /\ fileOwner = 0
  /\ fileOwner' = t
  /\ file' = [path |-> th[t].newFile, buf |-> <<>>]
  /\ th' = [th EXCEPT ![t].pc = "rot_lr"]
  /\ UNCHANGED <<sink, options, clock, fs, created, last_rotation, lrOwner, allocs, hist>>

\* rotate, lines 160-161: lock file and replace the BufWriter; the old one is
\* dropped, which flushes its buffer to the old file.
RotateSwap(t) ==
  /\ th[t].pc = "rot_file"
  /\ fileOwner = 0
  /\ fileOwner' = t
  /\ fs' = [fs EXCEPT ![file.path] = BufFlush(Writer).disk]
  /\ file' = [path |-> th[t].newFile, buf |-> <<>>]
  /\ th' = [th EXCEPT ![t].pc = "rot_lr"]
  /\ UNCHANGED <<sink, options, clock, created, last_rotation, lrOwner, allocs, hist>>

\* Variant: the clock is read again for the stored instant.
RotateStamp_Reread(t) ==
  /\ th[t].pc = "rot_lr"
  /\ fileOwner = t
  /\ lrOwner = 0
  /\ last_rotation' = clock
  /\ fileOwner' = 0
  /\ th' = [th EXCEPT ![t].pc = "write"]
  /\ UNCHANGED <<sink, options, clock, fs, created, file, lrOwner, allocs, hist>>

\* rotate, lines 163-165: with the file guard held, lock last_rotation, store
\* the instant read at line 157, and release both guards.
RotateStamp(t) ==
  /\ th[t].pc = "rot_lr"
  /\ fileOwner = t
  /\ lrOwner = 0
  /\ last_rotation' = th[t].nowRot
  /\ fileOwner' = 0
  /\ th' = [th EXCEPT ![t].pc = "write"]
  /\ UNCHANGED <<sink, options, clock, fs, created, file, lrOwner, allocs, hist>>

\* log(), lines 181-197: lock file, writeln! the message, unlock, return.
LogWrite(t) ==
  /\ th[t].pc = "write"
  /\ fileOwner = 0
  /\ LET w == Writeln(Writer, t, th[t].i, th[t].len)
     IN /\ fs' = [fs EXCEPT ![file.path] = w.disk]
        /\ file' = [file EXCEPT !.buf = w.buf]
  /\ hist' = Append(hist, <<t, th[t].i>>)
  /\ th' = [th EXCEPT ![t] = IdleLocals @@ [i |-> th[t].i, ret |-> clock]]
  /\ UNCHANGED <<sink, options, clock, created, fileOwner, last_rotation, lrOwner, allocs>>

\* flush(), lines 199-202, called by any thread.
Flush ==
  /\ fileOwner = 0
  /\ fs' = [fs EXCEPT ![file.path] = BufFlush(Writer).disk]
  /\ file' = [file EXCEPT !.buf = BufFlush(Writer).buf]
  /\ UNCHANGED <<sink, options, clock, created, fileOwner, last_rotation, lrOwner, th,
                 allocs, hist>>

\* The wall clock advances.
Tick ==
  /\ clock < MaxTime
  /\ clock' = clock + 1
  /\ UNCHANGED <<sink, options, fs, created, file, fileOwner, last_rotation, lrOwner, th,
                 allocs, hist>>

Next ==
  \/ \E t \in Threads : Log(t)
  \/ \E t \in Threads : ShouldRotateBucket(t)
  \/ \E t \in Threads : ShouldRotateSize(t)
  \/ \E t \in Threads : RotateCreate(t)
  \/ \E t \in Threads : RotateSwap(t)
  \/ \E t \in Threads : RotateStamp(t)
  \/ \E t \in Threads : LogWrite(t)
  \/ Flush
  \/ Tick

Spec == Init /\ [][Next]_vars

\* ------------------------------------------- the sink with I/O failures
\* rotate, line 158: create_file returns an error other than AlreadyExists and
\* expect() panics; the thread unwinds with no lock held.
RotateCreateFail(t) ==
  /\ th[t].pc = "rot_create"
  /\ th' = [th EXCEPT ![t].pc = "panicked"]
  /\ UNCHANGED <<sink, options, clock, fs, created, file, fileOwner, last_rotation,
                 lrOwner, allocs, hist>>

\* Whether BufWriter::write_all of the chunk has to write to the file.
TouchesFile(w, chunk) ==
  /\ chunk.n >= BufCap - Len_bytes(w.buf)
  /\ \/ chunk.n > BufCap - Len_bytes(w.buf) /\ w.buf # <<>>
     \/ chunk.n >= BufCap

\* log(), lines 189-192: writeln! fails while writing the message (nothing of
\* the entry is kept) or while writing the terminator (the message stays);
\* the failure goes to stderr and the call returns.
LogWriteFail(t) ==
  /\ th[t].pc = "write"
  /\ fileOwner = 0
  /\ LET m == MsgChunk(t, th[t].i, th[t].len)
         w1 == BufWriteAll(Writer, m)
     IN \/ /\ TouchesFile(Writer, m)
           /\ UNCHANGED <<fs, file>>
        \/ /\ TouchesFile(w1, NlChunk(t, th[t].i))
           /\ fs' = [fs EXCEPT ![file.path] = w1.disk]
           /\ file' = [file EXCEPT !.buf = w1.buf]
  /\ th' = [th EXCEPT ![t] = IdleLocals @@ [i |-> th[t].i, ret |-> clock]]
  /\ UNCHANGED <<sink, options, clock, created, fileOwner, last_rotation, lrOwner,
                 allocs, hist>>

FNext ==
  \/ Next
  \/ \E t \in Threads : RotateCreateFail(t)
  \/ \E t \in Threads : LogWriteFail(t)

FSpec == Init /\ [][FNext]_vars

\* ------------------------------------------------------- construction
\* The builder before build(): the options collected so far; the filename may
\* never have been set (DailyRotateFileBuilder::new leaves it None).
HasFilename(o) == "abs" \in DOMAIN o.filename

BuilderConfigs ==
  Configs \cup
  { [filename |-> None, dirname |-> Some("logs"), max_size |-> None,
     max_files |-> None, utc |-> FALSE] }

BInit ==
  \E o \in BuilderConfigs, pre \in 0..MaxPre :
    /\ sink = "unbuilt"
    /\ options = o
    /\ clock = 0
    /\ fs = IF HasFilename(o) THEN PreFiles(o, pre, Empty) ELSE Empty
    /\ created = IF HasFilename(o) THEN PreOrder(o, pre, Empty) ELSE <<>>
    /\ file = [path |-> NoPath, buf |-> <<>>]
    /\ fileOwner = 0
    /\ last_rotation = 0
    /\ lrOwner = 0
    /\ th = [t \in Threads |-> IdleLocals @@ [i |-> 0, ret |-> 0]]
    /\ allocs = <<>>
    /\ hist = <<>>

\* build, line 286: the filename was never set; Err("Filename is required").
BuildNoFilename ==
  /\ sink = "unbuilt"
  /\ ~HasFilename(options)
  /\ sink' = "error"
  /\ UNCHANGED <<options, clock, fs, created, file, fileOwner, last_rotation,
                 lrOwner, th, allocs, hist>>

\* build, lines 288-300, and new, lines 28-43: the initial file is created and
\* the sink is returned.
Build ==
  /\ sink = "unbuilt"
  /\ HasFilename(options)
  /\ LET p == create_file(options, clock, fs)
     IN /\ fs' = Opened(p, fs)
        /\ created' = Append(created, p)
        /\ allocs' = Append(allocs, p)
        /\ file' = [path |-> p, buf |-> <<>>]
  /\ last_rotation' = clock
  /\ sink' = "built"
  /\ UNCHANGED <<options, clock, fileOwner, lrOwner, th, hist>>

\* new, lines 35-36: create_file returns an error and expect() panics inside
\* build(); no sink and no Err value come back.
BuildCreateFail ==
  /\ sink = "unbuilt"
  /\ HasFilename(options)
  /\ sink' = "panicked"
  /\ UNCHANGED <<options, clock, fs, created, file, fileOwner, last_rotation,
                 lrOwner, th, allocs, hist>>

BNext ==
  \/ BuildNoFilename
  \/ Build
  \/ BuildCreateFail
  \/ sink = "built" /\ Next

BSpec == BInit /\ [][BNext]_vars

\* ---------------------------------------------------------- vocabulary
Range(s) == { s[k] : k \in 1..Len(s) }
IsPrefix(a, b) == Len(a) <= Len(b) /\ SubSeq(b, 1, Len(a)) = a

\* Every byte written to path p so far, flushed or still buffered.
Content(p) == IF p = file.path THEN fs[p] \o file.buf ELSE fs[p]

\* The same after the step.
ContentNext(p) == IF p = file'.path THEN fs'[p] \o file'.buf ELSE fs'[p]

\* A sequence of chunks made of complete lines: message, terminator, ...
CompleteLines(c) ==
  /\ Len(c) % 2 = 0
  /\ \A k \in 1..Len(c) :
       IF k % 2 = 1 THEN c[k].k = "msg" /\ c[k + 1].e = c[k].e
                    ELSE c[k].k = "nl"

\* The places where the message of entry e sits on disk.
PlacesOf(e) ==
  { <<p, k>> \in Range(allocs) \X (1..(2 * MaxEntries + 2)) :
      k <= Len(fs[p]) /\ fs[p][k].k = "msg" /\ fs[p][k].e = e }

HoldsEntry(p, e) == \E k \in 1..Len(Content(p)) : Content(p)[k].e = e
FileOf(e) == CHOOSE p \in DOMAIN fs : HoldsEntry(p, e)
Written(e) == \E p \in DOMAIN fs : HoldsEntry(p, e)
CreatedIdx(p) == CHOOSE k \in 1..Len(created) : created[k] = p

RECURSIVE EntriesIn(_)
EntriesIn(c) ==
  IF c = <<>> THEN <<>>
  ELSE IF Head(c).k = "msg" THEN <<Head(c).e>> \o EntriesIn(Tail(c))
       ELSE EntriesIn(Tail(c))

AllReturned == \A t \in Threads : th[t].pc = "idle"
SingleWriter(t) == \A u \in Threads \ {t} : th[u].i = 0
WriteStep(t) == th[t].pc = "write" /\ th'[t].pc = "idle" /\ hist' # hist
Bucket(t) == Format(t, options.utc)
NoBucketChange == Bucket(clock) = Bucket(0)
InRotate(t) == th[t].pc \in {"rot_create", "rot_file", "rot_lr"}

\* ---------------------------------------------------------------- claims

\* C1: once every log() call has returned and a final flush has emptied the
\* buffer, the files of the sink hold exactly one complete line per call: each
\* file is a sequence of complete lines and each issued entry sits at exactly
\* one place.
C1_OneLinePerWrite ==
  (AllReturned /\ file.buf = <<>>) =>
    /\ \A p \in Range(allocs) : CompleteLines(fs[p])
    /\ \A t \in Threads : \A i \in 1..MaxEntries :
         Cardinality(PlacesOf(<<t, i>>)) = IF i <= th[t].i THEN 1 ELSE 0

C1_Witness ==
  /\ AllReturned /\ file.buf = <<>>
  /\ Issued = MaxEntries
  /\ \A t \in Threads : th[t].i >= 1
  /\ Len(allocs) >= 2
  /\ \E p \in Range(allocs) : p # file.path /\ fs[p] # <<>>

\* C2: no reachable state has one thread holding the last_rotation lock and
\* waiting for the file lock (size probe) while another holds the file lock
\* and waits for the last_rotation lock (rotate).
C2_NoLockCycle ==
  ~ \E a, b \in Threads :
      /\ a # b
      /\ th[a].pc = "sr_size" /\ lrOwner = a
      /\ th[b].pc = "rot_lr" /\ fileOwner = b

\* C3: no path is created twice (every allocation creates the path it
\* returns), no two allocations return the same path, and the files that
\* existed before construction keep their bytes.
C3_UniqueAllocation ==
  /\ \A j, k \in 1..Len(created) : j # k => created[j] # created[k]
  /\ \A j, k \in 1..Len(allocs) : j # k => allocs[j] # allocs[k]
  /\ \A k \in 1..(Len(created) - Len(allocs)) :
       created[k] \notin Range(allocs) /\ fs[created[k]] = <<OldChunk>>

C3_Witness ==
  /\ Len(created) > Len(allocs)
  /\ Len(allocs) >= 3
  /\ \E j, k \in 1..Len(allocs) : j # k /\ allocs[j].date = allocs[k].date
  /\ \E k \in 1..Len(allocs) : allocs[k].date = created[1].date

Line(t) == <<MsgChunk(t, th[t].i, th[t].len), NlChunk(t, th[t].i)>>

\* C4, one step: with a single writer, a max size and no bucket change, the
\* append of an entry of e bytes goes to a file allocated by this call when
\* size + e >= S and to the file that was active when size + e < S; no other
\* bytes of any file change.
C4_Step(t) ==
  (SingleWriter(t) /\ options.max_size.some /\ Bucket(clock') = Bucket(0)) =>
    /\ WriteStep(t) =>
         LET prior == th[t].decOn
         IN IF Len_bytes(Content(prior)) + th[t].len + 1 >= options.max_size.v
              THEN /\ file.path # prior
                   /\ file.path = created[Len(created)]
                   /\ Content(file.path) = <<>>
                   /\ ContentNext(file.path) = Line(t)
              ELSE /\ file.path = prior
                   /\ ContentNext(prior) = Content(prior) \o Line(t)
    /\ \A p \in DOMAIN fs : (~WriteStep(t) \/ p # file.path) => ContentNext(p) = Content(p)

\* C4, the size-rotation test: n writes of equal entries with e < S <= 2e leave
\* n files of one entry each.
C4_EqualEntries ==
  \A t \in Threads :
    ( /\ SingleWriter(t) /\ th[t].pc = "idle" /\ th[t].i >= 1
      /\ options.max_size.some /\ NoBucketChange
      /\ \E e \in 2..(MaxMsgLen + 1) :
           /\ e < options.max_size.v /\ options.max_size.v <= 2 * e
           /\ \A p \in Range(allocs) : \A k \in 1..Len(Content(p)) :
                Content(p)[k].k = "msg" => Content(p)[k].n + 1 = e )
    => /\ Len(allocs) = th[t].i
       /\ \A p \in Range(allocs) : Len(EntriesIn(Content(p))) = 1

\* C4: a single writer's write that reaches the max size lands in a newly
\* allocated file, a write below it is appended to the active file, and the
\* bytes of the prior file stay as they were.
C4_SizeRotation == [][\A t \in Threads : C4_Step(t)]_vars /\ []C4_EqualEntries

C4_Witness ==
  \E t \in Threads :
    /\ SingleWriter(t) /\ th[t].pc = "idle" /\ th[t].i = 3
    /\ options.max_size.some /\ NoBucketChange
    /\ Len(allocs) = 2
    /\ Len(EntriesIn(Content(allocs[1]))) = 2
    /\ Len(EntriesIn(Content(allocs[2]))) = 1

\* C5: for a single writer, when the bucket at the submission of an entry
\* differs from the bucket at the return of the previous write, the entry is
\* appended to another file than the previous entry, the file of the previous
\* entry holds only earlier entries and is left as it was.
C5_DateRotation ==
  [][\A t \in Threads :
       ( /\ SingleWriter(t) /\ WriteStep(t) /\ th[t].i >= 2
         /\ Written(<<t, th[t].i - 1>>)
         /\ Bucket(th[t].ret) # Bucket(th[t].nowSR) )
       => LET old == FileOf(<<t, th[t].i - 1>>)
          IN /\ file.path # old
             /\ file.path = th[t].newFile
             /\ ContentNext(old) = Content(old)
             /\ \A k \in 1..Len(Content(old)) : Content(old)[k].e[2] < th[t].i
             /\ \E k \in 1..Len(ContentNext(file.path)) :
                  ContentNext(file.path)[k].e = <<t, th[t].i>> ]_vars

C5_Witness ==
  \E t \in Threads :
    /\ SingleWriter(t) /\ th[t].pc = "idle" /\ th[t].i = 2
    /\ ~options.max_size.some
    /\ Bucket(th[t].ret) # Bucket(0)
    /\ Len(allocs) = 2
    /\ EntriesIn(fs[allocs[1]]) = <<<<t, 1>>>>
    /\ EntriesIn(Content(allocs[2])) = <<<<t, 2>>>>

\* C6: for every thread, a later entry never sits in a file created before
\* the file that holds one of its earlier entries.
C6_NoReorder ==
  \A t \in Threads : \A i, j \in 1..MaxEntries :
    (i < j /\ Written(<<t, i>>) /\ Written(<<t, j>>)) =>
      CreatedIdx(FileOf(<<t, i>>)) <= CreatedIdx(FileOf(<<t, j>>))

\* C7: every append goes to the file the call's rotation decision was
\* evaluated against (decision: no rotation) or to the file the call's own
\* rotation installed (decision: rotate).
C7_DecisionConsistent ==
  [][\A t \in Threads :
       WriteStep(t) =>
         file.path = IF th[t].rot THEN th[t].newFile ELSE th[t].decOn]_vars

RECURSIVE BytesOf(_)
BytesOf(paths) ==
  IF paths = <<>> THEN 0
  ELSE Len_bytes(Content(Head(paths))) + BytesOf(Tail(paths))

RECURSIVE PendingBytes(_)
PendingBytes(n) ==
  IF n = 0 THEN 0
  ELSE (IF th[n].pc = "idle" THEN 0 ELSE th[n].len + 1) + PendingBytes(n - 1)

\* The bytes of every entry submitted so far.
SubmittedBytes == BytesOf(allocs) + PendingBytes(NumThreads)

\* C8: while the bucket has not changed and the submitted entries together
\* stay below the max size, the file opened at construction is the only file
\* of the sink and holds the appended entries as complete lines in the order of
\* their appends; every returned call's entry is among them.
C8_OneFileInOrder ==
  (NoBucketChange /\ (options.max_size.some => SubmittedBytes < options.max_size.v)) =>
    /\ Len(allocs) = 1
    /\ file.path = allocs[1]
    /\ CompleteLines(Content(allocs[1]))
    /\ EntriesIn(Content(allocs[1])) = hist
    /\ \A t \in Threads : \A i \in 1..th[t].i :
         (i < th[t].i \/ th[t].pc = "idle") => \E k \in 1..Len(hist) : hist[k] = <<t, i>>

C8_Witness ==
  /\ NoBucketChange /\ options.max_size.some
  /\ SubmittedBytes < options.max_size.v
  /\ AllReturned
  /\ Len(hist) = 2
  /\ hist[1][1] # hist[2][1]
  /\ clock > 0

\* C9: with max_files = N, whenever no rotation is in progress the sink has at
\* most N files on disk.
C9_Retention ==
  (options.max_files.some /\ \A t \in Threads : ~InRotate(t)) =>
    Cardinality(Range(allocs) \cap DOMAIN fs) <= options.max_files.v

\* C10: a log() call never panics, whatever fails underneath it.
C10_NeverPanics == \A t \in Threads : th[t].pc # "panicked"

\* C11: construction that does not yield a sink returns an error value (it
\* never panics), and it has created nothing when the filename was missing.
C11_ExplicitError ==
  /\ sink # "panicked"
  /\ (sink = "error" /\ ~HasFilename(options)) => (DOMAIN fs = {} /\ created = <<>>)

\* C12: with a dirname configured every file of the sink is inside it, and
\* the files of one bucket are all in one directory.
C12_InsideDirname ==
  /\ options.dirname.some =>
       \A k \in 1..Len(allocs) : allocs[k].dir = options.dirname.v
  /\ \A j, k \in 1..Len(allocs) :
       allocs[j].date = allocs[k].date => allocs[j].dir = allocs[k].dir

\* C13: a file is named <base>.<date> when it is the first of its bucket and
\* <base>.<date>_<n> otherwise, n being the smallest number from 1 whose name
\* was free.
C13_SuffixAfterDate ==
  \A k \in 1..Len(allocs) :
    LET p == allocs[k]
    IN /\ p.name = IF p.n = 0
                     THEN OriginalFilename \o "." \o DateStr(p.date)
                     ELSE OriginalFilename \o "." \o DateStr(p.date) \o "_" \o ToString(p.n)
       /\ \A m \in 1..(p.n - 1) :
            \E q \in DOMAIN fs : q.date = p.date /\ q.n = m

\* The active BufWriter and the bytes of its file after the step.
WriterNext == [disk |-> fs'[file'.path], buf |-> file'.buf]

\* C14: a flush with an empty buffer leaves the file and the buffer as they
\* are, and right after any flush a second flush changes nothing.
C14_FlushIdempotent ==
  /\ []((fileOwner = 0 /\ file.buf = <<>>) => BufFlush(Writer) = Writer)
  /\ [][Flush => (file'.buf = <<>> /\ BufFlush(WriterNext) = WriterNext)]_vars

C14_Witness ==
  /\ ~options.max_size.some /\ AllReturned /\ Issued = 1
  /\ Len(allocs) = 1
  /\ file.buf = <<>>
  /\ Len(fs[file.path]) = 2 /\ fs[file.path][1].n = 1

\* A file of the sink that was the active file and has been replaced.
Retired(p) ==
  /\ p \in Range(allocs)
  /\ p # file.path
  /\ \A t \in Threads : ~(th[t].pc = "rot_file" /\ th[t].newFile = p)

RetiredNext(p) ==
  /\ p \in Range(allocs')
  /\ p # file'.path
  /\ \A t \in Threads : ~(th'[t].pc = "rot_file" /\ th'[t].newFile = p)

\* C15: the step that replaces the active file leaves the old file with every
\* byte that was appended to it, on disk; a replaced file stays replaced and
\* its bytes never change.
C15_OldFileFrozen ==
  [][ /\ file'.path # file.path => fs'[file.path] = fs[file.path] \o file.buf
      /\ \A p \in DOMAIN fs :
           Retired(p) => (RetiredNext(p) /\ fs'[p] = fs[p]) ]_vars

C15_Witness ==
  /\ \E p \in Range(allocs) : Retired(p) /\ Len(fs[p]) >= 4
  /\ Len(hist) = MaxEntries
  /\ AllReturned

\* C16: with a max size S, a file holding two or more entries is smaller
\* than S.
C16_BelowMaxSize ==
  options.max_size.some =>
    \A p \in Range(allocs) :
      Len(EntriesIn(Content(p))) >= 2 => Len_bytes(Content(p)) < options.max_size.v

\* C17: without a max size, the sink has created one file per change of the
\* rotation bucket (besides the one of construction), never more.
C17_OneRotationPerChange ==
  ~options.max_size.some => Len(allocs) - 1 <= Bucket(clock) - Bucket(0)

\* C18: whenever the file lock is free, the bucket of the recorded
\* last-rotation instant is the date the active file was named with.
C18_StampMatchesFile ==
  fileOwner = 0 =>
    /\ Bucket(last_rotation) = file.path.date
    /\ \E n \in 0..Len(created) :
         file.path.name = IF n = 0
           THEN OriginalFilename \o "." \o DateStr(Bucket(last_rotation))
           ELSE OriginalFilename \o "_" \o ToString(n) \o "."
                  \o DateStr(Bucket(last_rotation))

C18_Witness ==
  /\ fileOwner = 0 /\ AllReturned
  /\ Len(allocs) = 3
  /\ file.path = allocs[2]
  /\ allocs[3].date # allocs[2].date
  /\ last_rotation > 0
====
